---- MODULE Spec2Model ----
(***************************************************************************)
(* Model of the knowledge-base repository: the ingestion handler           *)
(* (src/lambda/process_document/index.py) and the query service            *)
(* (src/app/main.py).                                                      *)
(*                                                                         *)
(* Text is a sequence of one-character strings.  Python offsets are        *)
(* 0-based: the character at Python offset i is text[i + 1].               *)
(***************************************************************************)
EXTENDS Integers, Sequences, FiniteSets, TLC

VARIABLES
    \* chunk_text (index.py 108-136)
    text, chunk_size, overlap, start, chunks, cpc, windows,
    \* the embedding generators (main.py 44-75, index.py 138-184)
    replies, getResult, genResult,
    \* POST /query (main.py 166-203)
    opensearch_endpoint, top_k, qpc, query_embedding, embedRaised,
    searchReply, search_results, genReply, qresponse, calls,
    \* the ingestion handler (index.py 13-86), one invocation per process
    allowed, budget, hpc, event, ri, key, hchunks, ci, embedding,
    processed_chunks, result,
    \* the vector store
    indexExists, docs,
    \* what happened, kept for the properties
    attempted, downloaded, tried, skipped, creates, lastWrite,
    keysAtInvoke, writtenAtInvoke

chunkVars == <<text, chunk_size, overlap, start, chunks, cpc, windows>>
embedVars == <<replies, getResult, genResult>>
queryVars == <<opensearch_endpoint, top_k, qpc, query_embedding, embedRaised,
               searchReply, search_results, genReply, qresponse, calls>>
procVars == <<hpc, event, ri, key, hchunks, ci, embedding, processed_chunks, result>>
storeVars == <<indexExists, docs>>
histVars == <<attempted, downloaded, tried, skipped, creates, lastWrite,
              keysAtInvoke, writtenAtInvoke>>
ingestVars == <<allowed, budget, procVars, storeVars, histVars>>
vars == <<chunkVars, embedVars, queryVars, ingestVars>>

\* the concurrent invocations of the handler
Procs == {1, 2}

\* the values of a component's variables while another component is studied
ChunkIdle ==
    /\ text = << >> /\ chunk_size = 0 /\ overlap = 0
    /\ start = 0 /\ chunks = << >> /\ windows = << >> /\ cpc = "off"
NotCalled == [pending |-> TRUE]
StoreSays(kind, hits) == [kind |-> kind, hits |-> hits]
EmbedIdle ==
    /\ replies = << >> /\ getResult = NotCalled /\ genResult = NotCalled
QueryIdle ==
    /\ opensearch_endpoint = "" /\ top_k = 0 /\ qpc = "off"
    /\ query_embedding = << >> /\ embedRaised = FALSE
    /\ searchReply = StoreSays("none", << >>) /\ search_results = << >> /\ genReply = "none"
    /\ qresponse = NotCalled /\ calls = << >>
IngestIdle ==
    /\ allowed = {} /\ budget = [p \in Procs |-> 0]
    /\ hpc = [p \in Procs |-> "off"]
    /\ event = [p \in Procs |-> << >>]
    /\ ri = [p \in Procs |-> 0]
    /\ key = [p \in Procs |-> << >>]
    /\ hchunks = [p \in Procs |-> << >>]
    /\ ci = [p \in Procs |-> 0]
    /\ embedding = [p \in Procs |-> << >>]
    /\ processed_chunks = [p \in Procs |-> 0]
    /\ result = [p \in Procs |-> NotCalled]
    /\ indexExists = FALSE /\ docs = << >>
    /\ attempted = [p \in Procs |-> {}]
    /\ downloaded = [p \in Procs |-> {}]
    /\ tried = [p \in Procs |-> {}]
    /\ skipped = [p \in Procs |-> {}]
    /\ creates = 0 /\ lastWrite = << >>
    /\ keysAtInvoke = [p \in Procs |-> {}]
    /\ writtenAtInvoke = [p \in Procs |-> {}]

-----------------------------------------------------------------------------
(* Program constants *)

\* chunk_text's default chunk_size
DefaultChunkSize == 1000
\* chunk_text's default overlap
DefaultOverlap == 100
\* the literal 100 of "sentence_end > start + chunk_size - 100"
SentenceWindow == 100
\* "if len(chunk.strip()) < 50" of the handler
MinChunkLen == 50

(* Bounds of the model *)

\* longest text of the exhaustively enumerated small texts
MaxLen == 3
\* largest chunk_size tried on the small texts
MaxSmallChunk == 3
\* length of the plain-text document of the 1000/100 scenario
DocLen == 1200
\* number of loop iterations of chunk_text that are followed
MaxIter == 6
\* most hits the index holds for a question
MaxHits == 2
\* most records of one batch of upload notifications
MaxRecords == 2
\* invocations of the handler that follow one another in a sequential run
MaxInvocations == 3

-----------------------------------------------------------------------------
(* Python string primitives *)

Period == "."
Whitespace == {" "}
Alphabet == {"a", Period, " "}

\* Python's adjustment of a (start, end) pair against a length, as done by
\* slicing and by str.rfind: negative values count from the end, everything
\* is clamped into 0..len.
AdjEnd(n, e) == IF e > n THEN n ELSE IF e < 0 THEN (IF e + n < 0 THEN 0 ELSE e + n) ELSE e
AdjStart(n, s) == IF s < 0 THEN (IF s + n < 0 THEN 0 ELSE s + n) ELSE s

\* text[s:e]
Slice(t, s, e) ==
    LET n  == Len(t)
        lo == AdjStart(n, s)
        hi == AdjEnd(n, e)
    IN  IF lo >= hi THEN << >> ELSE SubSeq(t, lo + 1, hi)

\* text.rfind('.', s, e): the highest offset in [s, e) holding a period, or -1
RFind(t, s, e) ==
    LET n  == Len(t)
        lo == AdjStart(n, s)
        hi == AdjEnd(n, e)
        S  == {i \in lo..(hi - 1) : t[i + 1] = Period}
    IN  IF S = {} THEN -1 ELSE CHOOSE i \in S : \A j \in S : j <= i

\* the sequences over S of length at most n
RECURSIVE SeqsUpTo(_, _)
SeqsUpTo(S, n) ==
    IF n = 0 THEN {<< >>}
    ELSE LET prev == SeqsUpTo(S, n - 1)
         IN  prev \cup {Append(q, x) : q \in {p \in prev : Len(p) = n - 1}, x \in S}

\* text.strip()
Strip(t) ==
    LET n == Len(t)
        S == {i \in 1..n : t[i] \notin Whitespace}
    IN  IF S = {} THEN << >>
        ELSE LET a == CHOOSE i \in S : \A j \in 1..(i - 1) : t[j] \in Whitespace
                 b == CHOOSE i \in S : \A j \in (i + 1)..n : t[j] \in Whitespace
             IN  SubSeq(t, a, b)

-----------------------------------------------------------------------------
(* The embedding generators *)

\* models_to_try (main.py 48-52, index.py 149-153)
Models ==
    <<"amazon.titan-embed-text-v1", "amazon.titan-embed-text-v2:0",
      "cohere.embed-english-v3">>

\* What bedrock_client.invoke_model does for one candidate: the call raises
\* ("error"), it returns a body that is not JSON ("garbled"), or it returns a
\* JSON body whose 'embedding' is absent or empty (<< >>) or a vector.
NoVector == << >>
VectorOf(i) == <<i, i + 1, i + 2>>
ReplyOf(i) ==
    { [kind |-> "error", embedding |-> NoVector],
      [kind |-> "garbled", embedding |-> NoVector],
      [kind |-> "json", embedding |-> NoVector],
      [kind |-> "json", embedding |-> VectorOf(i)] }
AllReplies ==
    {r \in [DOMAIN Models -> UNION {ReplyOf(i) : i \in DOMAIN Models}] :
        \A i \in DOMAIN Models : r[i] \in ReplyOf(i)}

Raised(msg) == [raised |-> TRUE, value |-> msg]
Returned(v) == [raised |-> FALSE, value |-> v]

\* main.py 57-72: the loop of get_embedding from candidate i on; the call and
\* the parse of its body are both inside the try of the loop
RECURSIVE GetEmbeddingFrom(_, _)
GetEmbeddingFrom(rs, i) ==
    IF i > Len(Models) THEN Raised("Error generating embeddings")
    ELSE IF rs[i].kind = "json" THEN Returned(rs[i].embedding)
    ELSE GetEmbeddingFrom(rs, i + 1)

\* main.py 44-75
GetEmbedding(rs) == GetEmbeddingFrom(rs, 1)

\* index.py 156-171: the candidate whose call did not raise, 0 when all raised
RECURSIVE FirstAnswering(_, _)
FirstAnswering(rs, i) ==
    IF i > Len(Models) THEN 0
    ELSE IF rs[i].kind # "error" THEN i
    ELSE FirstAnswering(rs, i + 1)

\* index.py 138-184: the body is parsed after the loop, outside its try
GenerateEmbedding(rs) ==
    LET i == FirstAnswering(rs, 1)
    IN  IF i = 0 THEN Raised("all models failed")
        ELSE IF rs[i].kind = "garbled" THEN Raised("invalid JSON")
        ELSE IF rs[i].embedding = NoVector
             THEN Raised("No embedding returned from Bedrock")
        ELSE Returned(rs[i].embedding)

-----------------------------------------------------------------------------
(* The query service, main.py *)

\* QueryRequest.top_k's default
DefaultTopK == 5

NoDocsAnswer == <<"I couldn't find any relevant documents to answer your question.">>
ErrorAnswerPrefix == "Error generating answer: "

\* the hits the index can hold for a question, best first
\* the _source of a hit may lack file_name or chunk_id
Hits ==
    UNION { { [file_name |-> "a.txt", chunk_id |-> 7, content |-> "text", score |-> sc],
              [chunk_id |-> 7, content |-> "text", score |-> sc],
              [file_name |-> "a.txt", content |-> "text", score |-> sc],
              [content |-> "text", score |-> sc] } : sc \in {1, 2} }

\* the first k elements of a sequence
Take(q, k) == IF Len(q) <= k THEN q ELSE SubSeq(q, 1, k)

\* search_similar_documents letting a failed search call escape
SearchRaisesOnError(endpoint, reply, k) ==
    IF endpoint = "" THEN Returned(<< >>)
    ELSE IF reply.kind = "error" THEN Raised("OpenSearch error")
    ELSE Returned(Take(reply.hits, k))

\* main.py 77-105.  reply is what the store does with the search: the call
\* raises ("error"), or there are the matching hits, of which it returns the
\* best top_k
SearchSimilarDocuments(endpoint, reply, k) ==
    IF endpoint = "" THEN Returned(<< >>)
    ELSE IF reply.kind = "error" THEN Returned(<< >>)
    ELSE Returned(Take(reply.hits, k))

\* generate_answer without its except clause
GenerateAnswerRaises(reply) ==
    IF reply \in {"error", "malformed"}
    THEN Raised(reply)
    ELSE Returned(<<reply>>)

\* main.py 107-135.  reply is what the answer model does: "error" (the call
\* raises), "malformed" (no content[0].text in the body) or the answer text
GenerateAnswer(reply) ==
    IF reply \in {"error", "malformed"}
    THEN Returned(<<ErrorAnswerPrefix, reply>>)
    ELSE Returned(<<reply>>)

\* main.py 186-193: the (file, chunk, score) entry of the i-th hit (i from 0)
SourceOf(hit, i) ==
    [ file  |-> IF "file_name" \in DOMAIN hit THEN hit.file_name ELSE "unknown",
      chunk |-> IF "chunk_id" \in DOMAIN hit THEN hit.chunk_id ELSE i,
      score |-> hit.score ]

Http500(detail) == [status |-> 500, detail |-> detail]
QueryResponse(answer, sources) == [status |-> 200, answer |-> answer, sources |-> sources]

-----------------------------------------------------------------------------
(* chunk_text, index.py 108-136 *)

\* SnapEnd without the "within the last 100 characters" test: any period of the
\* window becomes the right edge
SnapEndAnyPeriod(t, s, e, cs) ==
    IF e < Len(t)
    THEN LET sentence_end == RFind(t, s, e)
         IN  IF sentence_end > s THEN sentence_end + 1 ELSE e
    ELSE e

\* lines 121-126: the right edge of the window, snapped back to just after a
\* period found in the last SentenceWindow characters of the window
SnapEnd(t, s, e, cs) ==
    IF e < Len(t)
    THEN LET sentence_end == RFind(t, s, e)
         IN  IF sentence_end > s + cs - SentenceWindow
             THEN sentence_end + 1
             ELSE e
    ELSE e

\* lines 119-134: one iteration of the while loop, entered with start < len(text)
ChunkStep(t, cs, ov, s, cks) ==
    LET end   == SnapEnd(t, s, s + cs, cs)
        chunk == Strip(Slice(t, s, end))
        nstart == end - ov
    IN  [ end    |-> end,
          chunks |-> IF chunk # << >> THEN Append(cks, chunk) ELSE cks,
          start  |-> nstart,
          brk    |-> nstart >= Len(t) ]

\* chunk_text as a function, for the parameters on which the loop ends
RECURSIVE ChunkLoop(_, _, _, _, _)
ChunkLoop(t, cs, ov, s, cks) ==
    IF ~(s < Len(t)) THEN cks
    ELSE LET r == ChunkStep(t, cs, ov, s, cks)
         IN  IF r.brk THEN r.chunks ELSE ChunkLoop(t, cs, ov, r.start, r.chunks)

ChunkText(t, cs, ov) ==
    IF Len(t) <= cs THEN <<t>> ELSE ChunkLoop(t, cs, ov, 0, << >>)

\* A text of length n with periods at the offsets P and blanks at the offsets W
MkText(n, P, W) ==
    [i \in 1..n |-> IF (i - 1) \in P THEN Period
                    ELSE IF (i - 1) \in W THEN " " ELSE "a"]

\* every text of at most MaxLen characters, with every valid small
\* (chunk_size, overlap)
SmallInputs ==
    { [text |-> t, chunk_size |-> cs, overlap |-> ov] :
        t \in SeqsUpTo(Alphabet, MaxLen),
        cs \in 1..MaxSmallChunk,
        ov \in 0..(MaxSmallChunk - 1) }

\* texts a little longer than a chunk_size of SentenceWindow or more, where a
\* missing period is not mistaken for a sentence end
MidInputs ==
    { [text |-> MkText(n, P, {}), chunk_size |-> cs, overlap |-> ov] :
        n \in {SentenceWindow + 1, 2 * SentenceWindow},
        P \in {{}, {1}, {55}, {1, 98}, {120}},
        cs \in {SentenceWindow, SentenceWindow + 50},
        ov \in {0, 3, 60} }

\* documents of DocLen characters chunked with the default parameters
DocPeriods ==
    { {}, {500}, {899}, {900}, {901}, {950}, {998}, {999}, {1000}, {1100},
      {901, 950}, {500, 999} }
DocBlanks ==
    { {}, 0..(DefaultChunkSize - 1), 0..(DocLen - 1), 900..(DocLen - 1),
      (0..9) \cup ((DocLen - 10)..(DocLen - 1)), 995..1005 }
DocInputs ==
    { [text |-> MkText(DocLen, P, W),
       chunk_size |-> DefaultChunkSize, overlap |-> DefaultOverlap] :
        P \in DocPeriods, W \in DocBlanks }

ChunkInputs ==
    {x \in SmallInputs \cup MidInputs \cup DocInputs : x.overlap < x.chunk_size}

-----------------------------------------------------------------------------
(* The ingestion handler's helpers, index.py *)

\* urllib.parse.unquote_plus, on keys that hold no '%' escape
UnquotePlus(k) == [i \in 1..Len(k) |-> IF k[i] = "+" THEN " " ELSE k[i]]

\* str.lower(), on the letters the keys of the model use
LowerChar(c) ==
    CASE c = "P" -> "p" [] c = "D" -> "d" [] c = "F" -> "f"
      [] c = "T" -> "t" [] c = "X" -> "x" [] OTHER -> c
Lower(t) == [i \in 1..Len(t) |-> LowerChar(t[i])]

\* str.endswith
EndsWith(t, suffix) ==
    /\ Len(t) >= Len(suffix)
    /\ SubSeq(t, Len(t) - Len(suffix) + 1, Len(t)) = suffix

PdfPlaceholder ==
    <<"P", "D", "F", " ", "t", "e", "x", "t", " ", "e", "x", "t", "r",
      "a", "c", "t", "i", "o", "n", " ", "w", "o", "u", "l", "d", " ",
      "b", "e", " ", "i", "m", "p", "l", "e", "m", "e", "n", "t", "e",
      "d", " ", "h", "e", "r", "e", " ", "w", "i", "t", "h", " ", "P",
      "y", "P", "D", "F", "2">>
DocxPlaceholder ==
    <<"D", "O", "C", "X", " ", "t", "e", "x", "t", " ", "e", "x", "t",
      "r", "a", "c", "t", "i", "o", "n", " ", "w", "o", "u", "l", "d",
      " ", "b", "e", " ", "i", "m", "p", "l", "e", "m", "e", "n", "t",
      "e", "d", " ", "h", "e", "r", "e", " ", "w", "i", "t", "h", " ",
      "p", "y", "t", "h", "o", "n", "-", "d", "o", "c", "x">>

\* index.py 88-106.  file_content is the text the bytes decode to: the
\* objects of the model are valid UTF-8
ExtractText(file_content, filename) ==
    IF EndsWith(Lower(filename), <<".", "t", "x", "t">>) THEN file_content
    ELSE IF EndsWith(Lower(filename), <<".", "p", "d", "f">>) THEN PdfPlaceholder
    ELSE IF EndsWith(Lower(filename), <<".", "d", "o", "c", "x">>) THEN DocxPlaceholder
    ELSE file_content

\* str(n) for n >= 0
DigitChar(d) == <<"0", "1", "2", "3", "4", "5", "6", "7", "8", "9">>[d + 1]
RECURSIVE Digits(_)
Digits(n) == IF n < 10 THEN <<DigitChar(n)>> ELSE Digits(n \div 10) \o <<DigitChar(n % 10)>>

\* a record id that leaves the chunk index out
DocIdFileOnly(source_file, chunk_index) == source_file

\* index.py 243: f"{source_file}_{chunk_index}"
DocId(source_file, chunk_index) == source_file \o <<"_">> \o Digits(chunk_index)

\* index.py 233-238
Doc(content, emb, source_file, chunk_index) ==
    [ content |-> content, file_name |-> source_file,
      chunk_id |-> chunk_index, embedding |-> emb ]

\* client.index(index, body, id): the record with this id is created or replaced
Upsert(store, id, doc) == (id :> doc) @@ store

\* the keys of the upload notifications, as the event carries them
KeyLong == <<"a">>
KeyMedium == <<"a", "_", "1">>
KeyPdf == <<"b", ".", "P", "D", "F">>
KeyGone == <<"c", "+">>
KeyBlank == <<"d", ".", "t", "x", "t">>

\* the bucket: the object of each key (no object for KeyGone)
S3Objects ==
    (KeyLong :> MkText(DocLen, {950}, {})) @@
    (KeyMedium :> MkText(MinChunkLen + 10, {}, {0})) @@
    (UnquotePlus(KeyPdf) :> <<"%", "P", "D", "F">>) @@
    (KeyBlank :> <<" ", " ", " ">>)

\* a record of event['Records']; a malformed one has no 's3' entry
S3Record(k) == [s3 |-> [bucket |-> "uploads", key |-> k]]
MalformedRecord == [eventSource |-> "aws:s3"]
BatchesOf(records) == SeqsUpTo(records, MaxRecords) \ {<< >>}

Ok200(n) == [statusCode |-> 200, processed_files |-> n]
Err500(e) == [statusCode |-> 500, error |-> e]

-----------------------------------------------------------------------------
(* chunk_text run one loop iteration at a time *)

\* lines 112-116: the single-chunk return, or the loop's initialisation
ChunkEntry ==
    /\ cpc = "entry"
    /\ IF Len(text) <= chunk_size
       THEN /\ chunks' = <<text>>
            /\ cpc' = "done"
       ELSE /\ chunks' = << >>
            /\ cpc' = "loop"
    /\ start' = 0
    /\ UNCHANGED <<text, chunk_size, overlap, windows>>
    /\ UNCHANGED <<embedVars, queryVars, ingestVars>>

\* lines 118-134: one iteration of the while loop
ChunkIter ==
    /\ cpc = "loop"
    /\ Len(windows) < MaxIter
    /\ IF start < Len(text)
       THEN LET r == ChunkStep(text, chunk_size, overlap, start, chunks)
            IN  /\ chunks' = r.chunks
                /\ start' = r.start
                /\ windows' = Append(windows, [start |-> start, end |-> r.end])
                /\ cpc' = IF r.brk THEN "done" ELSE "loop"
       ELSE /\ cpc' = "done"
            /\ UNCHANGED <<chunks, start, windows>>
    /\ UNCHANGED <<text, chunk_size, overlap>>
    /\ UNCHANGED <<embedVars, queryVars, ingestVars>>

ChunkInit ==
    /\ \E x \in ChunkInputs :
          /\ text = x.text
          /\ chunk_size = x.chunk_size
          /\ overlap = x.overlap
    /\ start = 0
    /\ chunks = << >>
    /\ windows = << >>
    /\ cpc = "entry"
    /\ EmbedIdle /\ QueryIdle /\ IngestIdle

ChunkNext == ChunkEntry \/ ChunkIter

SpecChunk == ChunkInit /\ [][ChunkNext]_vars

-----------------------------------------------------------------------------
(* The two embedding generators applied to the same candidates' replies *)

CallGetEmbedding ==
    /\ getResult = NotCalled
    /\ getResult' = GetEmbedding(replies)
    /\ UNCHANGED <<replies, genResult, chunkVars, queryVars, ingestVars>>

CallGenerateEmbedding ==
    /\ genResult = NotCalled
    /\ genResult' = GenerateEmbedding(replies)
    /\ UNCHANGED <<replies, getResult, chunkVars, queryVars, ingestVars>>

EmbedInit ==
    /\ replies \in AllReplies
    /\ getResult = NotCalled
    /\ genResult = NotCalled
    /\ ChunkIdle /\ QueryIdle /\ IngestIdle

EmbedNext == CallGetEmbedding \/ CallGenerateEmbedding

SpecEmbed == EmbedInit /\ [][EmbedNext]_vars

-----------------------------------------------------------------------------
(* POST /query, main.py 166-203, one step per call it makes *)

\* line 171: the question is embedded; a failure ends the request (line 203)
QueryEmbed ==
    /\ qpc = "embed"
    /\ \E rs \in AllReplies :
          LET r == GetEmbedding(rs)
          IN  /\ embedRaised' = r.raised
              /\ IF r.raised
                 THEN /\ qresponse' = Http500("Error processing query")
                      /\ qpc' = "done"
                      /\ UNCHANGED query_embedding
                 ELSE /\ query_embedding' = r.value
                      /\ qpc' = "search"
                      /\ UNCHANGED qresponse
    /\ calls' = Append(calls, "embed")
    /\ UNCHANGED <<opensearch_endpoint, top_k, searchReply, search_results, genReply>>
    /\ UNCHANGED <<chunkVars, embedVars, ingestVars>>

\* lines 174-180: the search, and the fixed answer when it gives nothing
QuerySearch ==
    /\ qpc = "search"
    /\ \E reply \in (IF opensearch_endpoint = "" THEN {StoreSays("no client", << >>)}
                      ELSE {StoreSays("error", << >>)} \cup
                           {StoreSays("hits", h) : h \in SeqsUpTo(Hits, MaxHits)}) :
          LET r == SearchSimilarDocuments(opensearch_endpoint, reply, top_k)
          IN  /\ searchReply' = reply
              /\ IF r.raised
                 THEN /\ qresponse' = Http500("Error processing query")
                      /\ qpc' = "done"
                      /\ UNCHANGED search_results
                 ELSE /\ search_results' = r.value
                      /\ IF r.value = << >>
                         THEN /\ qresponse' = QueryResponse(NoDocsAnswer, << >>)
                              /\ qpc' = "done"
                         ELSE /\ qpc' = "generate"
                              /\ UNCHANGED qresponse
    /\ calls' = Append(calls, "search")
    /\ UNCHANGED <<opensearch_endpoint, top_k, query_embedding, embedRaised, genReply>>
    /\ UNCHANGED <<chunkVars, embedVars, ingestVars>>

\* lines 182-200: the sources, the answer and the response
QueryGenerate ==
    /\ qpc = "generate"
    /\ \E reply \in {"error", "malformed", "An answer."} :
          LET r == GenerateAnswer(reply)
              sources == [i \in 1..Len(search_results) |->
                             SourceOf(search_results[i], i - 1)]
          IN  /\ genReply' = reply
              /\ qresponse' = IF r.raised THEN Http500("Error processing query")
                                          ELSE QueryResponse(r.value, sources)
    /\ qpc' = "done"
    /\ calls' = Append(calls, "generate")
    /\ UNCHANGED <<opensearch_endpoint, top_k, query_embedding, embedRaised,
                   searchReply, search_results>>
    /\ UNCHANGED <<chunkVars, embedVars, ingestVars>>

QueryInit ==
    /\ opensearch_endpoint \in {"", "https://search.example"}
    /\ top_k \in {1, DefaultTopK}
    /\ qpc = "embed"
    /\ query_embedding = << >> /\ embedRaised = FALSE
    /\ searchReply = StoreSays("none", << >>) /\ search_results = << >> /\ genReply = "none"
    /\ qresponse = NotCalled /\ calls = << >>
    /\ ChunkIdle /\ EmbedIdle /\ IngestIdle

QueryNext == QueryEmbed \/ QuerySearch \/ QueryGenerate

SpecQuery == QueryInit /\ [][QueryNext]_vars

-----------------------------------------------------------------------------
(* The ingestion handler, index.py 13-86, one step per call it makes; the    *)
(* steps of concurrent invocations interleave.                               *)

\* what generate_embedding can do, over every reply of the candidates
EmbeddingOutcomes == {GenerateEmbedding(rs) : rs \in AllReplies}

Skip(p, why) == skipped' = [skipped EXCEPT ![p] = @ \cup {[ri |-> ri[p], ci |-> ci[p], why |-> why]}]

\* lines 18-21: an invocation starts; os.environ['BEDROCK_REGION'] raises
\* when the variable is not set, which ends the invocation at line 79
Invoke(p) ==
    /\ hpc[p] \in {"idle", "done"}
    /\ budget[p] > 0
    /\ budget' = [budget EXCEPT ![p] = @ - 1]
    /\ \E ev \in allowed, regionSet \in BOOLEAN :
          /\ event' = [event EXCEPT ![p] = ev]
          /\ IF regionSet
             THEN /\ hpc' = [hpc EXCEPT ![p] = "record"]
                  /\ result' = [result EXCEPT ![p] = NotCalled]
             ELSE /\ hpc' = [hpc EXCEPT ![p] = "done"]
                  /\ result' = [result EXCEPT ![p] = Err500("'BEDROCK_REGION'")]
    /\ ri' = [ri EXCEPT ![p] = 1]
    /\ key' = [key EXCEPT ![p] = << >>]
    /\ hchunks' = [hchunks EXCEPT ![p] = << >>]
    /\ ci' = [ci EXCEPT ![p] = 0]
    /\ embedding' = [embedding EXCEPT ![p] = << >>]
    /\ processed_chunks' = [processed_chunks EXCEPT ![p] = 0]
    /\ attempted' = [attempted EXCEPT ![p] = {}]
    /\ downloaded' = [downloaded EXCEPT ![p] = {}]
    /\ tried' = [tried EXCEPT ![p] = {}]
    /\ skipped' = [skipped EXCEPT ![p] = {}]
    /\ keysAtInvoke' = [keysAtInvoke EXCEPT ![p] = DOMAIN docs]
    /\ writtenAtInvoke' = [writtenAtInvoke EXCEPT ![p] = DOMAIN lastWrite]
    /\ UNCHANGED <<allowed, storeVars, creates, lastWrite>>
    /\ UNCHANGED <<chunkVars, embedVars, queryVars>>

\* lines 24-28 and 71-86: the next record's bucket and key are read, outside
\* the try of line 30; after the last record the invocation returns
NextRecord(p) ==
    /\ hpc[p] = "record"
    /\ IF ri[p] > Len(event[p])
       THEN /\ result' = [result EXCEPT ![p] = Ok200(Len(event[p]))]
            /\ hpc' = [hpc EXCEPT ![p] = "done"]
            /\ UNCHANGED key
       ELSE IF "s3" \notin DOMAIN event[p][ri[p]]
       THEN /\ result' = [result EXCEPT ![p] = Err500("'s3'")]
            /\ hpc' = [hpc EXCEPT ![p] = "done"]
            /\ UNCHANGED key
       ELSE /\ key' = [key EXCEPT ![p] = UnquotePlus(event[p][ri[p]].s3.key)]
            /\ hpc' = [hpc EXCEPT ![p] = "download"]
            /\ UNCHANGED result
    /\ UNCHANGED <<allowed, budget, event, ri, hchunks, ci, embedding, processed_chunks>>
    /\ UNCHANGED <<storeVars, histVars>>
    /\ UNCHANGED <<chunkVars, embedVars, queryVars>>

\* lines 30-47 and 67-69: download, extract, chunk; a failure of the download
\* and a text without content both go on to the next record
Download(p) ==
    /\ hpc[p] = "download"
    /\ attempted' = [attempted EXCEPT ![p] = @ \cup {ri[p]}]
    /\ \E s3Up \in BOOLEAN :
          IF s3Up /\ key[p] \in DOMAIN S3Objects
          THEN LET text_content == ExtractText(S3Objects[key[p]], key[p])
               IN  /\ downloaded' = [downloaded EXCEPT ![p] = @ \cup {ri[p]}]
                   /\ IF Strip(text_content) = << >>
                      THEN /\ ri' = [ri EXCEPT ![p] = @ + 1]
                           /\ hpc' = [hpc EXCEPT ![p] = "record"]
                           /\ UNCHANGED <<hchunks, ci, processed_chunks>>
                      ELSE /\ hchunks' = [hchunks EXCEPT ![p] =
                                  ChunkText(text_content, DefaultChunkSize, DefaultOverlap)]
                           /\ ci' = [ci EXCEPT ![p] = 0]
                           /\ processed_chunks' = [processed_chunks EXCEPT ![p] = 0]
                           /\ hpc' = [hpc EXCEPT ![p] = "chunk"]
                           /\ UNCHANGED ri
          ELSE /\ ri' = [ri EXCEPT ![p] = @ + 1]
               /\ hpc' = [hpc EXCEPT ![p] = "record"]
               /\ UNCHANGED <<downloaded, hchunks, ci, processed_chunks>>
    /\ UNCHANGED <<allowed, budget, event, key, embedding, result>>
    /\ UNCHANGED <<storeVars, tried, skipped, creates, lastWrite, keysAtInvoke, writtenAtInvoke>>
    /\ UNCHANGED <<chunkVars, embedVars, queryVars>>

\* lines 48-50 and 65: the next chunk of the file; short chunks are passed
\* over, and after the last chunk the next record follows
NextChunk(p) ==
    /\ hpc[p] = "chunk"
    /\ IF ci[p] >= Len(hchunks[p])
       THEN /\ ri' = [ri EXCEPT ![p] = @ + 1]
            /\ hpc' = [hpc EXCEPT ![p] = "record"]
            /\ UNCHANGED ci
       ELSE IF Len(Strip(hchunks[p][ci[p] + 1])) < MinChunkLen
       THEN /\ ci' = [ci EXCEPT ![p] = @ + 1]
            /\ UNCHANGED <<ri, hpc>>
       ELSE /\ hpc' = [hpc EXCEPT ![p] = "embed"]
            /\ UNCHANGED <<ri, ci>>
    /\ UNCHANGED <<allowed, budget, event, key, hchunks, embedding, processed_chunks, result>>
    /\ UNCHANGED <<storeVars, histVars>>
    /\ UNCHANGED <<chunkVars, embedVars, queryVars>>

\* lines 54 and 61-63: the chunk is embedded; a failure passes the chunk over
Embed(p) ==
    /\ hpc[p] = "embed"
    /\ tried' = [tried EXCEPT ![p] = @ \cup {<<ri[p], ci[p]>>}]
    /\ \E r \in EmbeddingOutcomes :
              IF r.raised
              THEN /\ Skip(p, "embedding")
                   /\ ci' = [ci EXCEPT ![p] = @ + 1]
                   /\ hpc' = [hpc EXCEPT ![p] = "chunk"]
                   /\ UNCHANGED embedding
              ELSE /\ embedding' = [embedding EXCEPT ![p] = r.value]
                   /\ hpc' = [hpc EXCEPT ![p] = "exists"]
                   /\ UNCHANGED <<skipped, ci>>
    /\ UNCHANGED <<allowed, budget, event, ri, key, hchunks, processed_chunks, result>>
    /\ UNCHANGED <<storeVars, attempted, downloaded, creates, lastWrite, keysAtInvoke, writtenAtInvoke>>
    /\ UNCHANGED <<chunkVars, embedVars, queryVars>>

\* store_in_opensearch, lines 190-210: the client is set up and the index is
\* looked for; a store that cannot be reached raises, which passes the chunk
\* over (lines 248-250 and 61-63)
Exists(p) ==
    /\ hpc[p] = "exists"
    /\ \E storeUp \in BOOLEAN :
          IF storeUp
          THEN /\ hpc' = [hpc EXCEPT ![p] = IF indexExists THEN "index" ELSE "create"]
               /\ UNCHANGED <<skipped, ci>>
          ELSE /\ Skip(p, "store")
               /\ ci' = [ci EXCEPT ![p] = @ + 1]
               /\ hpc' = [hpc EXCEPT ![p] = "chunk"]
    /\ UNCHANGED <<allowed, budget, event, ri, key, hchunks, embedding, processed_chunks, result>>
    /\ UNCHANGED <<storeVars, attempted, downloaded, tried, creates, lastWrite, keysAtInvoke, writtenAtInvoke>>
    /\ UNCHANGED <<chunkVars, embedVars, queryVars>>

\* store_in_opensearch, lines 211-230: the index was seen absent and is
\* created; the store refuses to create an index that exists
\* (resource_already_exists_exception), and the code does not catch that
Create(p) ==
    /\ hpc[p] = "create"
    /\ \E storeUp \in BOOLEAN :
          IF storeUp /\ ~indexExists
          THEN /\ indexExists' = TRUE
               /\ creates' = creates + 1
               /\ hpc' = [hpc EXCEPT ![p] = "index"]
               /\ UNCHANGED <<skipped, ci>>
          ELSE /\ Skip(p, IF storeUp THEN "index exists" ELSE "store")
               /\ ci' = [ci EXCEPT ![p] = @ + 1]
               /\ hpc' = [hpc EXCEPT ![p] = "chunk"]
               /\ UNCHANGED <<indexExists, creates>>
    /\ UNCHANGED <<allowed, budget, event, ri, key, hchunks, embedding, processed_chunks, result>>
    /\ UNCHANGED <<docs, attempted, downloaded, tried, lastWrite, keysAtInvoke, writtenAtInvoke>>
    /\ UNCHANGED <<chunkVars, embedVars, queryVars>>

\* store_in_opensearch, lines 232-246, and lines 58-59 of the handler
Index(p) ==
    /\ hpc[p] = "index"
    /\ \E storeUp \in BOOLEAN :
          IF storeUp
          THEN LET doc == Doc(hchunks[p][ci[p] + 1], embedding[p], key[p], ci[p])
                   id  == DocId(key[p], ci[p])
               IN  /\ docs' = Upsert(docs, id, doc)
                   /\ lastWrite' = Upsert(lastWrite, <<key[p], ci[p]>>, doc)
                   /\ processed_chunks' = [processed_chunks EXCEPT ![p] = @ + 1]
                   /\ UNCHANGED skipped
          ELSE /\ Skip(p, "store")
               /\ UNCHANGED <<docs, lastWrite, processed_chunks>>
    /\ ci' = [ci EXCEPT ![p] = @ + 1]
    /\ hpc' = [hpc EXCEPT ![p] = "chunk"]
    /\ UNCHANGED <<allowed, budget, event, ri, key, hchunks, embedding, result>>
    /\ UNCHANGED <<indexExists, attempted, downloaded, tried, creates, keysAtInvoke, writtenAtInvoke>>
    /\ UNCHANGED <<chunkVars, embedVars, queryVars>>

IngestStart(b, batches) ==
    /\ allowed = batches
    /\ budget = b
    /\ hpc = [p \in Procs |-> "idle"]
    /\ event = [p \in Procs |-> << >>]
    /\ ri = [p \in Procs |-> 0]
    /\ key = [p \in Procs |-> << >>]
    /\ hchunks = [p \in Procs |-> << >>]
    /\ ci = [p \in Procs |-> 0]
    /\ embedding = [p \in Procs |-> << >>]
    /\ processed_chunks = [p \in Procs |-> 0]
    /\ result = [p \in Procs |-> NotCalled]
    /\ indexExists = FALSE /\ docs = << >>
    /\ attempted = [p \in Procs |-> {}]
    /\ downloaded = [p \in Procs |-> {}]
    /\ tried = [p \in Procs |-> {}]
    /\ skipped = [p \in Procs |-> {}]
    /\ creates = 0 /\ lastWrite = << >>
    /\ keysAtInvoke = [p \in Procs |-> {}]
    /\ writtenAtInvoke = [p \in Procs |-> {}]
    /\ ChunkIdle /\ EmbedIdle /\ QueryIdle

\* the records of the uploads, and a malformed record
UploadRecords ==
    {S3Record(k) : k \in {KeyLong, KeyMedium, KeyPdf, KeyGone, KeyBlank}}
        \cup {MalformedRecord}

\* one invocation, on any batch of at most MaxRecords records
BatchInit ==
    IngestStart([p \in Procs |-> IF p = 1 THEN 1 ELSE 0], BatchesOf(UploadRecords))

\* invocations that follow one another, each for one upload notification
IngestInit ==
    IngestStart([p \in Procs |-> IF p = 1 THEN MaxInvocations ELSE 0],
                {<<r>> : r \in UploadRecords})

\* two invocations at the same time, each with one upload, on an empty store
RaceInit ==
    IngestStart([p \in Procs |-> 1],
                {<<S3Record(KeyMedium)>>, <<S3Record(KeyPdf)>>, <<S3Record(KeyBlank)>>})

IngestNext ==
    \E p \in Procs :
        \/ Invoke(p)
        \/ NextRecord(p)
        \/ Download(p)
        \/ NextChunk(p)
        \/ Embed(p)
        \/ Exists(p)
        \/ Create(p)
        \/ Index(p)

SpecBatch == BatchInit /\ [][IngestNext]_vars
SpecIngest == IngestInit /\ [][IngestNext]_vars
SpecRace == RaceInit /\ [][IngestNext]_vars

-----------------------------------------------------------------------------
(* Properties of chunk_text *)

\* the part of the text a window [start, end) selects, as text[start:end] does
WinLo(w) == AdjStart(Len(text), w.start)
WinHi(w) == AdjEnd(Len(text), w.end)
NonBlank(w) == \E i \in WinLo(w)..(WinHi(w) - 1) : text[i + 1] \notin Whitespace

\* an iteration that leaves start and chunks as they were: the loop never ends
Livelock ==
    /\ cpc = "loop"
    /\ start < Len(text)
    /\ LET r == ChunkStep(text, chunk_size, overlap, start, chunks)
       IN  ~r.brk /\ r.start = start /\ r.chunks = chunks

\* C1: for every text and every 0 <= overlap < chunk_size, chunk_text
\* terminates and the window start strictly increases from each iteration to
\* the next.
C1_StartsIncreaseAndTerminates ==
    /\ \A k \in 1..(Len(windows) - 1) : windows[k + 1].start > windows[k].start
    /\ (cpc = "loop" /\ windows # << >>) => start > windows[Len(windows)].start
    /\ ~Livelock

\* C6: a text shorter than chunk_size gives exactly one chunk, equal to the
\* text with leading and trailing whitespace removed.
C6_ShortTextOneTrimmedChunk ==
    (cpc = "done" /\ Len(text) < chunk_size) => chunks = <<Strip(text)>>

IsDefaultDoc ==
    /\ Len(text) = DocLen
    /\ chunk_size = DefaultChunkSize
    /\ overlap = DefaultOverlap

\* C7 as stated: a DocLen-character text chunked with 1000/100 gives exactly
\* 2 chunks, the second starting at offset >= chunk_size - overlap.
C7_TwoChunksSecondAt900 ==
    (cpc = "done" /\ IsDefaultDoc) =>
        /\ Len(chunks) = 2
        /\ Len(windows) = 2
        /\ windows[2].start >= chunk_size - overlap

\* C7 amended: a DocLen-character text chunked with 1000/100 is cut into
\* exactly two windows; the second starts at chunk_size - overlap when the
\* first window was not snapped and otherwise no earlier than
\* chunk_size - overlap - (SentenceWindow - 2), right after the overlap from
\* the period the first window ends with; there is one chunk per window
\* holding a non-blank character, so at most 2 chunks.
C7_TwoWindowsSecondAfterSnap ==
    (cpc = "done" /\ IsDefaultDoc) =>
        /\ Len(windows) = 2
        /\ windows[1].start = 0
        /\ windows[2].start >= chunk_size - overlap - (SentenceWindow - 2)
        /\ windows[2].start <= chunk_size - overlap
        /\ windows[2].start < chunk_size - overlap =>
              text[windows[1].end] = Period
        /\ windows[2].end >= Len(text)
        /\ Len(chunks) = Cardinality({k \in 1..2 : NonBlank(windows[k])})

\* the first window was snapped back to a period and both windows gave a chunk
C7_Witness ==
    /\ cpc = "done" /\ IsDefaultDoc
    /\ Len(chunks) = 2
    /\ windows[1].end = 951
    /\ windows[2].start = 851

\* C8: for a text longer than chunk_size on which chunk_text ends, every
\* non-blank character lies in the window of a chunk, and every window after
\* the first begins overlap characters before the end of the one before.
C8_WindowsCoverText ==
    (cpc = "done" /\ Len(text) > chunk_size) =>
        /\ \A k \in 1..(Len(windows) - 1) :
              windows[k + 1].start = windows[k].end - overlap
        /\ \A i \in 0..(Len(text) - 1) :
              text[i + 1] \notin Whitespace =>
                 \E k \in 1..Len(windows) :
                    /\ WinLo(windows[k]) <= i /\ i < WinHi(windows[k])
                    /\ \E c \in 1..Len(chunks) :
                          chunks[c] = Strip(Slice(text, windows[k].start, windows[k].end))

-----------------------------------------------------------------------------
(* Properties of the embedding generators *)

\* the first candidate whose reply holds a non-empty vector, 0 when none does
RECURSIVE FirstVector(_, _)
FirstVector(rs, i) ==
    IF i > Len(rs) THEN 0
    ELSE IF rs[i].kind = "json" /\ rs[i].embedding # NoVector THEN i
    ELSE FirstVector(rs, i + 1)

FirstVectorWins(res) ==
    LET i == FirstVector(replies, 1)
    IN  IF i = 0 THEN res.raised
        ELSE res = Returned(replies[i].embedding)

\* C2: get_embedding and generate_embedding return the vector of the first
\* candidate that returns a non-empty vector, skipping candidates that fail or
\* return no vector, and raise exactly when no candidate returns one; an empty
\* vector is never returned.
C2_FirstNonEmptyVectorWins ==
    /\ getResult # NotCalled => FirstVectorWins(getResult)
    /\ genResult # NotCalled => FirstVectorWins(genResult)

-----------------------------------------------------------------------------
(* Properties of POST /query *)

SearchGaveNothing ==
    \/ searchReply.kind \in {"no client", "error"}
    \/ searchReply.kind = "hits" /\ searchReply.hits = << >>

\* C4: when the question was embedded and the search gives no hit (nothing
\* matches, no endpoint is configured, or the search call fails), the response
\* is a success with the fixed answer and no sources, and the answer
\* generator was not called.
C4_NoHitsFixedAnswer ==
    (qpc = "done" /\ ~embedRaised /\ SearchGaveNothing) =>
        /\ qresponse = QueryResponse(NoDocsAnswer, << >>)
        /\ calls = <<"embed", "search">>

\* a request whose search call failed has ended
C4_Witness ==
    /\ qpc = "done" /\ ~embedRaised
    /\ searchReply.kind = "error"
    /\ qresponse.status = 200

\* C10: the steps run in the order embed, search, generate; a failed
\* embedding gives HTTP 500; a failed generation (which only happens after a
\* search with hits) gives a success whose answer starts with
\* "Error generating answer: " and whose sources are one (file, chunk, score)
\* per returned hit, in the order of the hits.
C10_GenerationFailureIsMasked ==
    /\ calls = Take(<<"embed", "search", "generate">>, Len(calls))
    /\ (qpc = "done" /\ embedRaised) =>
          qresponse.status = 500 /\ calls = <<"embed">>
    /\ (qpc = "done" /\ genReply \in {"error", "malformed"}) =>
          LET hits == Take(searchReply.hits, top_k)
          IN  /\ hits # << >>
              /\ qresponse.status = 200
              /\ qresponse.answer[1] = ErrorAnswerPrefix
              /\ Len(qresponse.sources) = Len(hits)
              /\ \A i \in 1..Len(hits) :
                    /\ qresponse.sources[i].score = hits[i].score
                    /\ "file_name" \in DOMAIN hits[i] =>
                          qresponse.sources[i].file = hits[i].file_name
                    /\ "chunk_id" \in DOMAIN hits[i] =>
                          qresponse.sources[i].chunk = hits[i].chunk_id

\* the generation failed on a request whose search returned two hits
C10_Witness ==
    /\ qpc = "done"
    /\ genReply = "error"
    /\ Len(search_results) = 2
    /\ qresponse.status = 200

-----------------------------------------------------------------------------
(* Properties of the ingestion handler and of the store *)

Finished(p) == hpc[p] = "done" /\ result[p] # Err500("'BEDROCK_REGION'")

\* the chunks the handler cuts the object of record r of p's batch into
\* (lines 36-43): none when the extracted text is blank, as the handler goes
\* on to the next record before chunk_text is called
ChunksOfRecord(p, r) ==
    LET k == UnquotePlus(event[p][r].s3.key)
        text_content == ExtractText(S3Objects[k], k)
    IN  IF Strip(text_content) = << >> THEN << >>
        ELSE ChunkText(text_content, DefaultChunkSize, DefaultOverlap)

\* C3: an invocation attempts every record of its batch, whatever failed on
\* the records before (the read of bucket and key included), and every chunk
\* of every file it could download, whatever failed on the chunks before; it
\* ends with statusCode 200 and processed_files = the number of records.
C3_EveryRecordAndChunkAttempted ==
    \A p \in Procs :
        Finished(p) =>
            /\ result[p] = Ok200(Len(event[p]))
            /\ attempted[p] = 1..Len(event[p])
            /\ \A r \in downloaded[p] :
                  LET cks == ChunksOfRecord(p, r)
                  IN  \A c \in 1..Len(cks) :
                         Len(Strip(cks[c])) >= MinChunkLen => <<r, c - 1>> \in tried[p]

StoredPairs == {<<docs[id].file_name, docs[id].chunk_id>> : id \in DOMAIN docs}

\* one record per (file_name, chunk_id), each pair written has its record,
\* and the record of a pair is the one written last for it
OneRecordPerPairLastWins ==
    /\ \A i, j \in DOMAIN docs :
          (docs[i].file_name = docs[j].file_name /\ docs[i].chunk_id = docs[j].chunk_id)
              => i = j
    /\ StoredPairs = DOMAIN lastWrite
    /\ \A pr \in DOMAIN lastWrite : \E id \in DOMAIN docs : docs[id] = lastWrite[pr]

\* every file of p's batch had a record in the store when p started
Reingests(p) ==
    /\ hpc[p] = "done"
    /\ result[p] = Ok200(Len(event[p]))
    /\ \A r \in 1..Len(event[p]) :
          \E pr \in writtenAtInvoke[p] : pr[1] = UnquotePlus(event[p][r].s3.key)

\* C5 as stated: one record per pair, last write wins, and an invocation that
\* re-ingests files leaves the set of stored keys as it was.
C5_ReingestKeepsKeys ==
    /\ OneRecordPerPairLastWins
    /\ \A p \in Procs : Reingests(p) => DOMAIN docs = keysAtInvoke[p]

\* C5 amended: one record per pair, last write wins, and an invocation that
\* re-ingests files removes no key and adds a key only for a pair that had
\* no record (a chunk whose embedding or write failed before): when it wrote
\* no new pair, the set of stored keys is as it was.
C5_ReingestAddsOnlyMissingKeys ==
    /\ OneRecordPerPairLastWins
    /\ \A p \in Procs :
          hpc[p] = "done" =>
              /\ keysAtInvoke[p] \subseteq DOMAIN docs
              /\ Cardinality(DOMAIN docs \ keysAtInvoke[p]) =
                    Cardinality(DOMAIN lastWrite \ writtenAtInvoke[p])
              /\ DOMAIN lastWrite = writtenAtInvoke[p] => DOMAIN docs = keysAtInvoke[p]

\* a second invocation has written again both chunks of the long file, with
\* another embedding, and the store holds the two records it held before
C5_Witness ==
    /\ Reingests(1)
    /\ budget[1] = MaxInvocations - 2
    /\ processed_chunks[1] = 2
    /\ Cardinality(keysAtInvoke[1]) = 2
    /\ DOMAIN docs = keysAtInvoke[1]
    /\ docs[DocId(KeyLong, 1)].embedding = VectorOf(2)

\* C9: when two invocations start on a store without index, whatever the
\* interleaving of their exists, create and index calls, the index is created
\* once and no chunk is passed over because the other invocation created the
\* index first: when no embedding failed and the store was never out, every
\* chunk the invocations embedded is stored.
C9_IndexRaceAbsorbed ==
    LET NoOutage == \A p \in Procs : \A s \in skipped[p] :
                       s.why \notin {"embedding", "store"}
    IN  ((\A p \in Procs : hpc[p] = "done" /\ budget[p] = 0) /\ NoOutage) =>
            /\ creates <= 1
            /\ \A p \in Procs : \A s \in skipped[p] : s.why # "index exists"
            /\ \A p \in Procs : \A t \in tried[p] :
                  DocId(UnquotePlus(event[p][t[1]].s3.key), t[2]) \in DOMAIN docs

====
